---- MODULE Spec2Model ----
(***************************************************************************)
(* Model of stream_3dprinter_camera.py: the frame hand-off between the     *)
(* camera encoder (StreamingOutput.write), the streaming sessions          *)
(* (StreamingHandler.do_GET) and the motion detector (detect_motion).      *)
(***************************************************************************)
EXTENDS Integers, Sequences, FiniteSets, TLC

\* ------------------------------------------------------------------ bounds
\* Number of HTTP clients that may connect.
NSessions == 2
\* Number of frames the encoder hands to StreamingOutput.write.
MaxFrames == 3

\* RESOLUTION (w, h) of the buffers the detector compares, scaled down.
W == 3
H == 1

Sessions == 1..NSessions

\* ------------------------------------------------------- program constants
MOTION_THRESHOLD == 12
WAIT_AFTER_MOTION == 30
WAIT_AFTER_N_LOOPS == 5
MOTION_N_LOOPS == 15

\* Values of MOTION_N_LOOPS the detector is run with: the shipped one, small
\* ones, and the ones that switch the throttle off.
LoopSettings == {-1, 0, 1, 2, 3, MOTION_N_LOOPS}

\* Owners of the lock inside output.condition.
Free == -1
Producer == 0

\* output.frame before the first write (None).
NoFrame == 0

VARIABLES
    frame,      \* output.frame: number of the frame held by the bus, NoFrame for None
    lock,       \* owner of the lock of output.condition
    waiters,    \* sessions enrolled in output.condition and not yet notified
    ppc,        \* position of the encoder thread inside StreamingOutput.write
    buf,        \* argument of the write call in progress
    published,  \* how many frames write has published so far
    spc,        \* position of each session inside do_GET
    sframe,     \* each session's local variable `frame`
    sent,       \* number of the frame each session last wrote to its client
    head,       \* the response head each session has put on its socket
    part,       \* the elements of the part each session is writing or wrote last
    clen,       \* the Content-Length announced in that part
    version,    \* request_version of each session's request line
    tokenSet,   \* whether PRINTER_TOKEN is a non-empty string
    nLoops,     \* the value of MOTION_N_LOOPS in this run
    dpc,        \* position of the detector thread inside detect_motion
    prev,       \* detect_motion's `prev` (<<>> for None)
    cur,        \* detect_motion's `cur` (<<>> for None)
    nloop,      \* detect_motion's `nloop`
    mse,        \* detect_motion's `mse`, as the sum of the squares (mean = mse / (w*h))
    filepath,   \* detect_motion's `filepath`
    sleepLeft,  \* seconds left of the time.sleep in progress
    files,      \* snapshot files on disk
    nSaved,     \* snapshot files written since the last trigger
    uploads,    \* paths handed to the upload since the last trigger, in order
    quiet,      \* iterations completed without trigger since start, pause or trigger
    afterTrig,  \* 1 if a trigger came since the start or the last pause, else 0
    crashedAt,  \* position at which an exception left detect_motion
    sinceTrig,  \* buffers captured since the start or the last trigger, up to 2
    mpc,        \* position of the main thread in the module's code and start_stream
    rotation,   \* ROTATION after `ROTATION = args.rot`
    transform,  \* the Transform handed to create_video_configuration
    noDetect,   \* args.no_detect
    recording,  \* whether the camera is recording into output
    stops,      \* calls of picam2.stop_recording() so far
    exc         \* the exception in flight in start_stream

busVars == <<frame, lock, waiters, ppc, buf, published>>
wireVars == <<head, part, clen, version>>
sessVars == <<spc, sframe, sent, head, part, clen, version>>
streamVars == <<frame, lock, waiters, ppc, buf, published, spc, sframe, sent,
                head, part, clen, version>>
detVars == <<tokenSet, nLoops, dpc, prev, cur, nloop, mse, filepath, sleepLeft,
             files, nSaved, uploads, quiet, afterTrig, crashedAt, sinceTrig>>
mainVars == <<mpc, rotation, transform, noDetect, recording, stops, exc>>
vars == <<frame, lock, waiters, ppc, buf, published, spc, sframe, sent,
          head, part, clen, version,
          tokenSet, nLoops, dpc, prev, cur, nloop, mse, filepath, sleepLeft,
          files, nSaved, uploads, quiet, afterTrig, crashedAt, sinceTrig,
          mpc, rotation, transform, noDetect, recording, stops, exc>>

\* Positions of do_GET at which a session is writing one part to its client.
WritePcs == {"w_boundary", "w_headers", "w_frame", "w_crlf"}

\* Positions of do_GET inside the `with output.condition` block.
LockPcs == {"locked", "woken"}

\* Positions at which do_GET has returned or raised.
EndPcs == {"removed", "raised"}

\* Every client sends a request line with a version.
AllVersioned == version = [s \in Sessions |-> "HTTP/1.1"]

\* StreamingOutput.__init__ and the state before any request is accepted.
BusInit ==
    /\ frame = NoFrame
    /\ lock = Free
    /\ waiters = {}
    /\ ppc = "idle"
    /\ buf = NoFrame
    /\ published = 0
    /\ spc = [s \in Sessions |-> "idle"]
    /\ sframe = [s \in Sessions |-> NoFrame]
    /\ sent = [s \in Sessions |-> NoFrame]
    /\ head = [s \in Sessions |-> <<>>]
    /\ part = [s \in Sessions |-> <<>>]
    /\ clen = [s \in Sessions |-> 0]

\* ---------------------------------------------------- StreamingOutput.write
\* The encoder calls write(buf) with the next frame, while the camera records
\* into output (between start_recording and stop_recording).
WriteCall ==
    /\ recording
    /\ ppc = "idle"
    /\ published < MaxFrames
    /\ buf' = published + 1
    /\ ppc' = "acquire"
    /\ UNCHANGED <<frame, lock, waiters, published, sessVars>>
    /\ UNCHANGED detVars
    /\ UNCHANGED mainVars

\* `with self.condition:` entered.
WriteAcquire ==
    /\ ppc = "acquire"
    /\ lock = Free
    /\ lock' = Producer
    /\ ppc' = "swap"
    /\ UNCHANGED <<frame, waiters, buf, published, sessVars>>
    /\ UNCHANGED detVars
    /\ UNCHANGED mainVars

\* self.frame = buf
WriteSwap ==
    /\ ppc = "swap"
    /\ frame' = buf
    /\ published' = buf
    /\ ppc' = "notify"
    /\ UNCHANGED <<lock, waiters, buf, sessVars>>
    /\ UNCHANGED detVars
    /\ UNCHANGED mainVars

\* self.condition.notify_all(): every enrolled waiter is woken.
WriteNotify ==
    /\ ppc = "notify"
    /\ spc' = [s \in Sessions |-> IF s \in waiters THEN "notified" ELSE spc[s]]
    /\ waiters' = {}
    /\ ppc' = "release"
    /\ UNCHANGED <<frame, lock, buf, published, sframe, sent>>
    /\ UNCHANGED wireVars
    /\ UNCHANGED detVars
    /\ UNCHANGED mainVars

\* Leaving the `with` block of write.
WriteRelease ==
    /\ ppc = "release"
    /\ lock' = Free
    /\ ppc' = "idle"
    /\ UNCHANGED <<frame, waiters, buf, published, sessVars>>
    /\ UNCHANGED detVars
    /\ UNCHANGED mainVars

\* ------------------------------------------------- StreamingHandler.do_GET
\* The bytes of frame number k: k bytes, each k (frames differ in length and
\* in content).
FrameBytes(k) == [i \in 1..k |-> k]

\* The request versions tried: a request line with a version, and one
\* without (`GET /path`), which BaseHTTPRequestHandler takes as HTTP/0.9.
Versions == {"HTTP/0.9", "HTTP/1.1"}

\* send_response(200): the status line and the Server and Date headers go to
\* the headers buffer; nothing does for an HTTP/0.9 request.
SendResponse(v, hb) ==
    IF v = "HTTP/0.9" THEN hb ELSE hb \o <<"200", "Server", "Date">>

\* send_header(name, value): one header line more in the headers buffer;
\* nothing for an HTTP/0.9 request.
SendHeader(v, hb, h) == IF v = "HTTP/0.9" THEN hb ELSE Append(hb, h)

\* end_headers(): the blank line is added and the buffer is what goes on the
\* socket, in one write; nothing for an HTTP/0.9 request.
EndHeaders(v, hb) == IF v = "HTTP/0.9" THEN hb ELSE Append(hb, "blank")

\* What lines 195-200 put on the socket.
ResponseHead(v) ==
    EndHeaders(v, SendHeader(v, SendHeader(v, SendHeader(v, SendHeader(v,
        SendResponse(v, <<>>),
        "Age"), "Cache-Control"), "Pragma"), "Content-Type: multipart"))

\* What lines 209-211 put on the socket.
PartHeaders(v) ==
    EndHeaders(v, SendHeader(v, SendHeader(v, <<>>, "Content-Type"), "Content-Length"))

\* A client connects while serve_forever runs; StreamingServer runs do_GET on
\* a thread of its own.
Connect(s) ==
    /\ mpc = "serve"
    /\ spc[s] = "idle"
    /\ spc' = [spc EXCEPT ![s] = "hdr"]
    /\ UNCHANGED <<busVars, sframe, sent>>
    /\ UNCHANGED wireVars
    /\ UNCHANGED detVars
    /\ UNCHANGED mainVars

\* send_response(200) .. end_headers(): the response head reaches the client.
SendHead(s) ==
    /\ spc[s] = "hdr"
    /\ head' = [head EXCEPT ![s] = @ \o ResponseHead(version[s])]
    /\ spc' = [spc EXCEPT ![s] = "acquire"]
    /\ UNCHANGED <<busVars, sframe, sent, part, clen, version>>
    /\ UNCHANGED detVars
    /\ UNCHANGED mainVars

\* end_headers() fails on a closed socket: it is outside the try block, so the
\* exception leaves do_GET. (Nothing is written for an HTTP/0.9 request.)
SendHeadFail(s) ==
    /\ spc[s] = "hdr"
    /\ version[s] # "HTTP/0.9"
    /\ spc' = [spc EXCEPT ![s] = "raised"]
    /\ UNCHANGED <<busVars, sframe, sent>>
    /\ UNCHANGED wireVars
    /\ UNCHANGED detVars
    /\ UNCHANGED mainVars

\* `with output.condition:` entered.
Acquire(s) ==
    /\ spc[s] = "acquire"
    /\ lock = Free
    /\ lock' = s
    /\ spc' = [spc EXCEPT ![s] = "locked"]
    /\ UNCHANGED <<frame, waiters, ppc, buf, published, sframe, sent>>
    /\ UNCHANGED wireVars
    /\ UNCHANGED detVars
    /\ UNCHANGED mainVars

\* WaitBegin with wait() returning at once, no notification needed.
WaitBeginNoBlock(s) ==
    /\ spc[s] = "locked"
    /\ lock = s
    /\ spc' = [spc EXCEPT ![s] = "woken"]
    /\ UNCHANGED <<busVars, sframe, sent>>
    /\ UNCHANGED wireVars
    /\ UNCHANGED detVars
    /\ UNCHANGED mainVars

\* output.condition.wait(): enrol as a waiter and release the lock, in one
\* step with respect to every other holder of the lock.
WaitBegin(s) ==
    /\ spc[s] = "locked"
    /\ lock = s
    /\ waiters' = waiters \cup {s}
    /\ lock' = Free
    /\ spc' = [spc EXCEPT ![s] = "waiting"]
    /\ UNCHANGED <<frame, ppc, buf, published, sframe, sent>>
    /\ UNCHANGED wireVars
    /\ UNCHANGED detVars
    /\ UNCHANGED mainVars

\* wait() returning: the notified session takes the lock again.
WaitEnd(s) ==
    /\ spc[s] = "notified"
    /\ lock = Free
    /\ lock' = s
    /\ spc' = [spc EXCEPT ![s] = "woken"]
    /\ UNCHANGED <<frame, waiters, ppc, buf, published, sframe, sent>>
    /\ UNCHANGED wireVars
    /\ UNCHANGED detVars
    /\ UNCHANGED mainVars

\* TakeFrame with the writes of the part moved inside the `with` block.
TakeFrameKeepLock(s) ==
    /\ spc[s] = "woken"
    /\ lock = s
    /\ sframe' = [sframe EXCEPT ![s] = frame]
    /\ spc' = [spc EXCEPT ![s] = "w_boundary"]
    /\ UNCHANGED <<busVars, sent>>
    /\ UNCHANGED wireVars
    /\ UNCHANGED detVars
    /\ UNCHANGED mainVars

\* TakeFrame reading the frame after the one last taken, as from a queue.
TakeFrameFromBacklog(s) ==
    /\ spc[s] = "woken"
    /\ lock = s
    /\ sframe' = [sframe EXCEPT ![s] = @ + 1]
    /\ lock' = Free
    /\ spc' = [spc EXCEPT ![s] = "w_boundary"]
    /\ UNCHANGED <<frame, waiters, ppc, buf, published, sent>>
    /\ UNCHANGED wireVars
    /\ UNCHANGED detVars
    /\ UNCHANGED mainVars

\* frame = output.frame, then the `with` block ends and the lock is released.
TakeFrame(s) ==
    /\ spc[s] = "woken"
    /\ lock = s
    /\ sframe' = [sframe EXCEPT ![s] = frame]
    /\ lock' = Free
    /\ spc' = [spc EXCEPT ![s] = "w_boundary"]
    /\ UNCHANGED <<frame, waiters, ppc, buf, published, sent>>
    /\ UNCHANGED wireVars
    /\ UNCHANGED detVars
    /\ UNCHANGED mainVars

\* self.wfile.write(b'--FRAME\r\n')
WriteBoundary(s) ==
    /\ spc[s] = "w_boundary"
    /\ part' = [part EXCEPT ![s] = <<"boundary">>]
    /\ spc' = [spc EXCEPT ![s] = "w_headers"]
    /\ UNCHANGED <<busVars, sframe, sent, head, clen, version>>
    /\ UNCHANGED detVars
    /\ UNCHANGED mainVars

\* WritePartHeaders announcing len(output.frame), read without the lock, in
\* place of the length of the local `frame`.
WritePartHeadersFromBus(s) ==
    /\ spc[s] = "w_headers"
    /\ part' = [part EXCEPT ![s] = @ \o PartHeaders(version[s])]
    /\ clen' = [clen EXCEPT ![s] =
                  IF version[s] = "HTTP/0.9" THEN @ ELSE Len(FrameBytes(frame))]
    /\ spc' = [spc EXCEPT ![s] = "w_frame"]
    /\ UNCHANGED <<busVars, sframe, sent, head, version>>
    /\ UNCHANGED detVars
    /\ UNCHANGED mainVars

\* send_header('Content-Type', ..), send_header('Content-Length', len(frame))
\* and end_headers(): the part's headers are flushed.
WritePartHeaders(s) ==
    /\ spc[s] = "w_headers"
    /\ part' = [part EXCEPT ![s] = @ \o PartHeaders(version[s])]
    /\ clen' = [clen EXCEPT ![s] =
                  IF version[s] = "HTTP/0.9" THEN @ ELSE Len(FrameBytes(sframe[s]))]
    /\ spc' = [spc EXCEPT ![s] = "w_frame"]
    /\ UNCHANGED <<busVars, sframe, sent, head, version>>
    /\ UNCHANGED detVars
    /\ UNCHANGED mainVars

\* self.wfile.write(frame)
WriteFrame(s) ==
    /\ spc[s] = "w_frame"
    /\ sent' = [sent EXCEPT ![s] = sframe[s]]
    /\ part' = [part EXCEPT ![s] = Append(@, "frame")]
    /\ spc' = [spc EXCEPT ![s] = "w_crlf"]
    /\ UNCHANGED <<busVars, sframe, head, clen, version>>
    /\ UNCHANGED detVars
    /\ UNCHANGED mainVars

\* WriteCRLF without the write.
WriteCRLFOmitted(s) ==
    /\ spc[s] = "w_crlf"
    /\ spc' = [spc EXCEPT ![s] = "acquire"]
    /\ UNCHANGED <<busVars, sframe, sent>>
    /\ UNCHANGED wireVars
    /\ UNCHANGED detVars
    /\ UNCHANGED mainVars

\* self.wfile.write(b'\r\n'), then the next turn of `while True`.
WriteCRLF(s) ==
    /\ spc[s] = "w_crlf"
    /\ part' = [part EXCEPT ![s] = Append(@, "crlf")]
    /\ spc' = [spc EXCEPT ![s] = "acquire"]
    /\ UNCHANGED <<busVars, sframe, sent, head, clen, version>>
    /\ UNCHANGED detVars
    /\ UNCHANGED mainVars

\* WriteFail without the try/except around the loop.
WriteFailUncaught(s) ==
    /\ spc[s] \in WritePcs
    /\ spc' = [spc EXCEPT ![s] = "raised"]
    /\ UNCHANGED <<busVars, sframe, sent>>
    /\ UNCHANGED wireVars
    /\ UNCHANGED detVars
    /\ UNCHANGED mainVars

\* A write of the part fails (client gone): `except Exception` logs the
\* removal and do_GET returns. (For an HTTP/0.9 request the part's headers
\* are no write.)
WriteFail(s) ==
    /\ spc[s] \in WritePcs
    /\ ~(spc[s] = "w_headers" /\ version[s] = "HTTP/0.9")
    /\ spc' = [spc EXCEPT ![s] = "removed"]
    /\ UNCHANGED <<busVars, sframe, sent>>
    /\ UNCHANGED wireVars
    /\ UNCHANGED detVars
    /\ UNCHANGED mainVars

ProducerStep ==
    \/ WriteCall
    \/ WriteAcquire
    \/ WriteSwap
    \/ WriteNotify
    \/ WriteRelease

SessionStep(s) ==
    \/ Connect(s)
    \/ SendHead(s)
    \/ SendHeadFail(s)
    \/ Acquire(s)
    \/ WaitBegin(s)
    \/ WaitEnd(s)
    \/ TakeFrame(s)
    \/ WriteBoundary(s)
    \/ WritePartHeaders(s)
    \/ WriteFrame(s)
    \/ WriteCRLF(s)
    \/ WriteFail(s)

BusNext ==
    \/ ProducerStep
    \/ \E s \in Sessions : SessionStep(s)

\* -------------------------------------------------------------- main thread
\* The main thread inside httpd.serve_forever(), the camera recording: the
\* state in which the encoder, the sessions and the detector run.
MainServing ==
    /\ mpc = "serve"
    /\ rotation = 0
    /\ transform = "identity"
    /\ noDetect = (dpc = "off")
    /\ recording = TRUE
    /\ stops = 0
    /\ exc = "none"

\* ------------------------------------------------------------ detect_motion
\* Python's None, for prev and cur.
None == <<>>

\* A buffer of n elements whose first m hold e and the rest 0.
Buffer(n, m, e) == [i \in 1..n |-> IF i <= m THEN e ELSE 0]

\* What picam2.capture_buffer("main") may return: buffers of w*h elements,
\* of one element less and of one element more, holding 0, 6 and 16.
RawBuffers ==
    {Buffer(n, m, e) : n \in {W * H - 1, W * H, W * H + 1}, m \in 0..(W * H), e \in {6, 16}}

\* Timestamps datetime.now().strftime may give; filepath is
\* SNAPSHOT_DIR/motion_<timestamp>.jpg, one path for each timestamp.
Stamps == {"t1", "t2"}

\* numpy.subtract on uint8 arrays: element-wise, modulo 2^8.
Subtract8(a, b) == [i \in 1..Len(a) |-> (a[i] - b[i]) % 256]

\* numpy.square on a uint8 array: element-wise, modulo 2^8.
Square8(a) == [i \in 1..Len(a) |-> (a[i] * a[i]) % 256]

RECURSIVE SumSeq(_)
SumSeq(a) == IF a = <<>> THEN 0 ELSE a[1] + SumSeq(Tail(a))

\* numpy.square(numpy.subtract(cur, prev)).mean(), times the element count:
\* mean() accumulates in float64, so the sum itself does not wrap.
SquaredDiffSum(c, p) == SumSeq(Square8(Subtract8(c, p)))

\* cur[:w * h]
Slice(r) == SubSeq(r, 1, IF Len(r) < W * H THEN Len(r) ELSE W * H)

\* The state of a run in which the detector thread is not started (--no-detect).
DetOff ==
    /\ tokenSet = FALSE
    /\ nLoops = MOTION_N_LOOPS
    /\ dpc = "off"
    /\ prev = None
    /\ cur = None
    /\ nloop = 0
    /\ mse = 0
    /\ filepath = "none"
    /\ sleepLeft = 0
    /\ files = {}
    /\ nSaved = 0
    /\ uploads = <<>>
    /\ quiet = 0
    /\ afterTrig = 0
    /\ crashedAt = "none"
    /\ sinceTrig = 0

\* detect_motion entered: prev = None, nloop = 0.
DetInit ==
    /\ tokenSet \in BOOLEAN
    /\ nLoops \in LoopSettings
    /\ dpc = "start"
    /\ prev = None
    /\ cur = None
    /\ nloop = 0
    /\ mse = 0
    /\ filepath = "none"
    /\ sleepLeft = 0
    /\ files = {}
    /\ nSaved = 0
    /\ uploads = <<>>
    /\ quiet = 0
    /\ afterTrig = 0
    /\ crashedAt = "none"
    /\ sinceTrig = 0

\* An exception leaves detect_motion: nothing in it catches one.
Raise ==
    /\ crashedAt' = dpc
    /\ dpc' = "crashed"

\* CheckToken with the test of PRINTER_TOKEN taken away.
CheckTokenIgnored ==
    /\ dpc = "start"
    /\ dpc' = "capture"
    /\ UNCHANGED <<tokenSet, nLoops, prev, cur, nloop, mse, filepath, sleepLeft,
                   files, nSaved, uploads, quiet, afterTrig, crashedAt>>
    /\ UNCHANGED sinceTrig
    /\ UNCHANGED streamVars
    /\ UNCHANGED mainVars

\* `if not PRINTER_TOKEN`: print the error and return.
CheckToken ==
    /\ dpc = "start"
    /\ dpc' = IF tokenSet THEN "capture" ELSE "returned"
    /\ UNCHANGED <<tokenSet, nLoops, prev, cur, nloop, mse, filepath, sleepLeft,
                   files, nSaved, uploads, quiet, afterTrig, crashedAt>>
    /\ UNCHANGED sinceTrig
    /\ UNCHANGED streamVars
    /\ UNCHANGED mainVars

\* cur = picam2.capture_buffer("main")
CaptureBuffer ==
    /\ dpc = "capture"
    /\ \E r \in RawBuffers : cur' = r
    /\ sinceTrig' = IF sinceTrig < 2 THEN sinceTrig + 1 ELSE 2
    /\ dpc' = "reshape"
    /\ UNCHANGED <<tokenSet, nLoops, prev, nloop, mse, filepath, sleepLeft,
                   files, nSaved, uploads, quiet, afterTrig, crashedAt>>
    /\ UNCHANGED streamVars
    /\ UNCHANGED mainVars

\* capture_buffer raises.
CaptureBufferFail ==
    /\ dpc = "capture"
    /\ Raise
    /\ UNCHANGED <<tokenSet, nLoops, prev, cur, nloop, mse, filepath, sleepLeft,
                   files, nSaved, uploads, quiet, afterTrig>>
    /\ UNCHANGED sinceTrig
    /\ UNCHANGED streamVars
    /\ UNCHANGED mainVars

\* cur = cur[:w * h].reshape(h, w): reshape raises unless the slice holds
\* w*h elements.
Reshape ==
    /\ dpc = "reshape"
    /\ IF Len(Slice(cur)) = W * H
         THEN cur' = Slice(cur) /\ dpc' = "compare" /\ UNCHANGED crashedAt
         ELSE Raise /\ UNCHANGED cur
    /\ UNCHANGED <<tokenSet, nLoops, prev, nloop, mse, filepath, sleepLeft,
                   files, nSaved, uploads, quiet, afterTrig>>
    /\ UNCHANGED sinceTrig
    /\ UNCHANGED streamVars
    /\ UNCHANGED mainVars

\* Compare with `mse >= MOTION_THRESHOLD` as the test.
CompareAtThreshold ==
    /\ dpc = "compare"
    /\ IF prev # None
         THEN /\ mse' = SquaredDiffSum(cur, prev)
              /\ IF mse' >= MOTION_THRESHOLD * (W * H)
                   THEN /\ \E ts \in Stamps : filepath' = ts
                        /\ dpc' = "request"
                        /\ nSaved' = 0
                        /\ uploads' = <<>>
                        /\ sinceTrig' = 0
                   ELSE /\ dpc' = "endloop"
                        /\ UNCHANGED <<filepath, nSaved, uploads, sinceTrig>>
         ELSE /\ dpc' = "endloop"
              /\ UNCHANGED <<mse, filepath, nSaved, uploads, sinceTrig>>
    /\ UNCHANGED <<tokenSet, nLoops, prev, cur, nloop, sleepLeft, files, quiet,
                   afterTrig, crashedAt>>
    /\ UNCHANGED streamVars
    /\ UNCHANGED mainVars

\* `if prev is not None`: mse = ...; `if mse > MOTION_THRESHOLD`: timestamp,
\* filepath.
Compare ==
    /\ dpc = "compare"
    /\ IF prev # None
         THEN /\ mse' = SquaredDiffSum(cur, prev)
              /\ IF mse' > MOTION_THRESHOLD * (W * H)
                   THEN /\ \E ts \in Stamps : filepath' = ts
                        /\ dpc' = "request"
                        /\ nSaved' = 0
                        /\ uploads' = <<>>
                        /\ sinceTrig' = 0
                   ELSE /\ dpc' = "endloop"
                        /\ UNCHANGED <<filepath, nSaved, uploads, sinceTrig>>
         ELSE /\ dpc' = "endloop"
              /\ UNCHANGED <<mse, filepath, nSaved, uploads, sinceTrig>>
    /\ UNCHANGED <<tokenSet, nLoops, prev, cur, nloop, sleepLeft, files, quiet,
                   afterTrig, crashedAt>>
    /\ UNCHANGED streamVars
    /\ UNCHANGED mainVars

\* request = picam2.capture_request()
CaptureRequest ==
    /\ dpc = "request"
    /\ dpc' = "save"
    /\ UNCHANGED <<tokenSet, nLoops, prev, cur, nloop, mse, filepath, sleepLeft,
                   files, nSaved, uploads, quiet, afterTrig, crashedAt>>
    /\ UNCHANGED sinceTrig
    /\ UNCHANGED streamVars
    /\ UNCHANGED mainVars

\* capture_request raises.
CaptureRequestFail ==
    /\ dpc = "request"
    /\ Raise
    /\ UNCHANGED <<tokenSet, nLoops, prev, cur, nloop, mse, filepath, sleepLeft,
                   files, nSaved, uploads, quiet, afterTrig>>
    /\ UNCHANGED sinceTrig
    /\ UNCHANGED streamVars
    /\ UNCHANGED mainVars

\* request.save("main", filepath); request.release()
SaveSnapshot ==
    /\ dpc = "save"
    /\ files' = files \cup {filepath}
    /\ nSaved' = nSaved + 1
    /\ dpc' = "upload"
    /\ UNCHANGED <<tokenSet, nLoops, prev, cur, nloop, mse, filepath, sleepLeft,
                   uploads, quiet, afterTrig, crashedAt>>
    /\ UNCHANGED sinceTrig
    /\ UNCHANGED streamVars
    /\ UNCHANGED mainVars

\* request.save raises.
SaveSnapshotFail ==
    /\ dpc = "save"
    /\ Raise
    /\ UNCHANGED <<tokenSet, nLoops, prev, cur, nloop, mse, filepath, sleepLeft,
                   files, nSaved, uploads, quiet, afterTrig>>
    /\ UNCHANGED sinceTrig
    /\ UNCHANGED streamVars
    /\ UNCHANGED mainVars

\* Upload without the time.sleep(WAIT_AFTER_MOTION) after it.
UploadNoCooldown ==
    /\ dpc = "upload"
    /\ uploads' = Append(uploads, filepath)
    /\ sleepLeft' = 0
    /\ dpc' = "cooldown"
    /\ UNCHANGED <<tokenSet, nLoops, prev, cur, nloop, mse, filepath, files,
                   nSaved, quiet, afterTrig, crashedAt>>
    /\ UNCHANGED sinceTrig
    /\ UNCHANGED streamVars
    /\ UNCHANGED mainVars

\* os.system(cmd) runs curl on filepath and returns its exit status, which
\* is not looked at: a failed upload and a good one continue alike. Then
\* time.sleep(WAIT_AFTER_MOTION) begins.
Upload ==
    /\ dpc = "upload"
    /\ uploads' = Append(uploads, filepath)
    /\ sleepLeft' = WAIT_AFTER_MOTION
    /\ dpc' = "cooldown"
    /\ UNCHANGED <<tokenSet, nLoops, prev, cur, nloop, mse, filepath, files,
                   nSaved, quiet, afterTrig, crashedAt>>
    /\ UNCHANGED sinceTrig
    /\ UNCHANGED streamVars
    /\ UNCHANGED mainVars

\* One second of time.sleep(WAIT_AFTER_MOTION) passes.
CooldownTick ==
    /\ dpc = "cooldown"
    /\ sleepLeft > 0
    /\ sleepLeft' = sleepLeft - 1
    /\ UNCHANGED <<tokenSet, nLoops, dpc, prev, cur, nloop, mse, filepath,
                   files, nSaved, uploads, quiet, afterTrig, crashedAt>>
    /\ UNCHANGED sinceTrig
    /\ UNCHANGED streamVars
    /\ UNCHANGED mainVars

\* CooldownEnd without `cur = None`.
CooldownEndKeepCur ==
    /\ dpc = "cooldown"
    /\ sleepLeft = 0
    /\ nloop' = 0
    /\ quiet' = 0
    /\ afterTrig' = IF nLoops > 0 THEN 1 ELSE 0
    /\ dpc' = "endloop"
    /\ UNCHANGED <<tokenSet, nLoops, prev, cur, mse, filepath, sleepLeft, files,
                   nSaved, uploads, crashedAt>>
    /\ UNCHANGED sinceTrig
    /\ UNCHANGED streamVars
    /\ UNCHANGED mainVars

\* CooldownEnd without `nloop = 0`.
CooldownEndKeepCount ==
    /\ dpc = "cooldown"
    /\ sleepLeft = 0
    /\ cur' = None
    /\ quiet' = 0
    /\ afterTrig' = IF nLoops > 0 THEN 1 ELSE 0
    /\ dpc' = "endloop"
    /\ UNCHANGED <<tokenSet, nLoops, prev, nloop, mse, filepath, sleepLeft, files,
                   nSaved, uploads, crashedAt>>
    /\ UNCHANGED sinceTrig
    /\ UNCHANGED streamVars
    /\ UNCHANGED mainVars

\* The sleep is over: cur = None, nloop = 0.
CooldownEnd ==
    /\ dpc = "cooldown"
    /\ sleepLeft = 0
    /\ cur' = None
    /\ nloop' = 0
    /\ quiet' = 0
    /\ afterTrig' = IF nLoops > 0 THEN 1 ELSE 0
    /\ dpc' = "endloop"
    /\ UNCHANGED <<tokenSet, nLoops, prev, mse, filepath, sleepLeft, files,
                   nSaved, uploads, crashedAt>>
    /\ UNCHANGED sinceTrig
    /\ UNCHANGED streamVars
    /\ UNCHANGED mainVars

\* Whether the iteration now ending went through the trigger branch.
Triggered == cur = None

\* EndLoop with the counting left out in an iteration that triggered.
EndLoopSkipAfterTrigger ==
    /\ dpc = "endloop"
    /\ prev' = cur
    /\ IF nLoops > 0 /\ ~Triggered
         THEN /\ nloop' = (nloop + 1) % nLoops
              /\ quiet' = quiet + 1
              /\ IF nloop' = 0
                   THEN dpc' = "throttle" /\ sleepLeft' = WAIT_AFTER_N_LOOPS
                   ELSE dpc' = "capture" /\ UNCHANGED sleepLeft
         ELSE /\ dpc' = "capture"
              /\ UNCHANGED <<nloop, quiet, sleepLeft>>
    /\ UNCHANGED <<tokenSet, nLoops, cur, mse, filepath, files, nSaved, uploads,
                   afterTrig, crashedAt>>
    /\ UNCHANGED sinceTrig
    /\ UNCHANGED streamVars
    /\ UNCHANGED mainVars

\* prev = cur; `if MOTION_N_LOOPS > 0`: nloop = (nloop+1) % MOTION_N_LOOPS and,
\* at 0, time.sleep(WAIT_AFTER_N_LOOPS) begins.
EndLoop ==
    /\ dpc = "endloop"
    /\ prev' = cur
    /\ IF nLoops > 0
         THEN /\ nloop' = (nloop + 1) % nLoops
              /\ quiet' = IF Triggered THEN quiet ELSE quiet + 1
              /\ IF nloop' = 0
                   THEN dpc' = "throttle" /\ sleepLeft' = WAIT_AFTER_N_LOOPS
                   ELSE dpc' = "capture" /\ UNCHANGED sleepLeft
         ELSE /\ dpc' = "capture"
              /\ UNCHANGED <<nloop, quiet, sleepLeft>>
    /\ UNCHANGED <<tokenSet, nLoops, cur, mse, filepath, files, nSaved, uploads,
                   afterTrig, crashedAt>>
    /\ UNCHANGED sinceTrig
    /\ UNCHANGED streamVars
    /\ UNCHANGED mainVars

\* One second of time.sleep(WAIT_AFTER_N_LOOPS) passes.
ThrottleTick ==
    /\ dpc = "throttle"
    /\ sleepLeft > 0
    /\ sleepLeft' = sleepLeft - 1
    /\ UNCHANGED <<tokenSet, nLoops, dpc, prev, cur, nloop, mse, filepath,
                   files, nSaved, uploads, quiet, afterTrig, crashedAt>>
    /\ UNCHANGED sinceTrig
    /\ UNCHANGED streamVars
    /\ UNCHANGED mainVars

\* The sleep is over: the next turn of `while True`.
ThrottleEnd ==
    /\ dpc = "throttle"
    /\ sleepLeft = 0
    /\ quiet' = 0
    /\ afterTrig' = 0
    /\ dpc' = "capture"
    /\ UNCHANGED <<tokenSet, nLoops, prev, cur, nloop, mse, filepath, sleepLeft,
                   files, nSaved, uploads, crashedAt>>
    /\ UNCHANGED sinceTrig
    /\ UNCHANGED streamVars
    /\ UNCHANGED mainVars

DetNext ==
    \/ CheckToken
    \/ CaptureBuffer
    \/ CaptureBufferFail
    \/ Reshape
    \/ Compare
    \/ CaptureRequest
    \/ CaptureRequestFail
    \/ SaveSnapshot
    \/ SaveSnapshotFail
    \/ Upload
    \/ CooldownTick
    \/ CooldownEnd
    \/ EndLoop
    \/ ThrottleTick
    \/ ThrottleEnd

\* The detector thread (it shares no state with the encoder and the
\* sessions, which are left out: no client connects, no frame is published).
InitDet == BusInit /\ AllVersioned /\ DetInit /\ MainServing

\* A buffer of w*h elements holding a in its first element and b in the others.
TwoTone(a, b) == [i \in 1..(W * H) |-> IF i = 1 THEN a ELSE b]

\* The detector about to compare two buffers that differ by one offset in
\* every element: every pair of 8-bit values in the first element, and the
\* values of the other elements that stay within 0..255.
InitMetric ==
    /\ BusInit
    /\ AllVersioned
    /\ tokenSet = TRUE
    /\ nLoops = MOTION_N_LOOPS
    /\ dpc = "compare"
    /\ \E p \in 0..255, c \in 0..255, q \in {0, 128, 255} :
         /\ q + (c - p) \in 0..255
         /\ prev = TwoTone(p, q)
         /\ cur = TwoTone(c, q + (c - p))
    /\ nloop = 1
    /\ mse = 0
    /\ filepath = "none"
    /\ sleepLeft = 0
    /\ files = {}
    /\ nSaved = 0
    /\ uploads = <<>>
    /\ quiet = 1
    /\ afterTrig = 0
    /\ crashedAt = "none"
    /\ sinceTrig = 2
    /\ MainServing

\* The comparison of detect_motion on its own, over the whole 8-bit range.
SpecMetric == InitMetric /\ [][Compare]_vars

SpecDet == InitDet /\ [][DetNext]_vars

\* ------------------------------------------------- module code, start_stream
\* Values of --rot tried: argparse takes any integer (type=int).
RotArgs == {-90, 0, 90, 180, 270, 360}

\* The process before parser.parse_args(): ROTATION holds its default, no
\* camera, no detector thread, no server.
InitStartup ==
    /\ BusInit
    /\ AllVersioned
    /\ tokenSet \in BOOLEAN
    /\ nLoops = MOTION_N_LOOPS
    /\ dpc = "off"
    /\ prev = None
    /\ cur = None
    /\ nloop = 0
    /\ mse = 0
    /\ filepath = "none"
    /\ sleepLeft = 0
    /\ files = {}
    /\ nSaved = 0
    /\ uploads = <<>>
    /\ quiet = 0
    /\ afterTrig = 0
    /\ crashedAt = "none"
    /\ sinceTrig = 0
    /\ mpc = "parse"
    /\ rotation = 0
    /\ transform = "none"
    /\ noDetect = FALSE
    /\ recording = FALSE
    /\ stops = 0
    /\ exc = "none"

\* args = parser.parse_args(); ROTATION = args.rot (any integer is taken);
\* args.no_detect.
ParseArgs ==
    /\ mpc = "parse"
    /\ \E r \in RotArgs : rotation' = r
    /\ \E n \in BOOLEAN : noDetect' = n
    /\ mpc' = "color"
    /\ UNCHANGED <<transform, recording, stops, exc>>
    /\ UNCHANGED streamVars
    /\ UNCHANGED detVars

\* `if TIME_COLOR not in TIME_COLOR_MAP`: print the error and exit(1); the
\* only argument value the module code checks.
CheckColor ==
    /\ mpc = "color"
    /\ \E known \in BOOLEAN : mpc' = IF known THEN "transform" ELSE "exited"
    /\ UNCHANGED <<rotation, transform, noDetect, recording, stops, exc>>
    /\ UNCHANGED streamVars
    /\ UNCHANGED detVars

\* output = StreamingOutput();
\* transform = Transform(hflip=1, vflip=1) if ROTATION == 180 else Transform()
MakeTransform ==
    /\ mpc = "transform"
    /\ transform' = IF rotation = 180 THEN "hvflip" ELSE "identity"
    /\ mpc' = "configure"
    /\ UNCHANGED <<rotation, noDetect, recording, stops, exc>>
    /\ UNCHANGED streamVars
    /\ UNCHANGED detVars

\* picam2 = Picamera2(); picam2.configure(config); set_controls; the overlay
\* callback.
Configure ==
    /\ mpc = "configure"
    /\ mpc' = "record"
    /\ UNCHANGED <<rotation, transform, noDetect, recording, stops, exc>>
    /\ UNCHANGED streamVars
    /\ UNCHANGED detVars

\* picam2.start_recording(JpegEncoder(), FileOutput(output))
StartRecording ==
    /\ mpc = "record"
    /\ recording' = TRUE
    /\ mpc' = "thread"
    /\ UNCHANGED <<rotation, transform, noDetect, stops, exc>>
    /\ UNCHANGED streamVars
    /\ UNCHANGED detVars

\* `if not args.no_detect`: the detector thread is created and started.
StartThread ==
    /\ mpc = "thread"
    /\ dpc' = IF noDetect THEN dpc ELSE "start"
    /\ mpc' = "call"
    /\ UNCHANGED <<rotation, transform, noDetect, recording, stops, exc>>
    /\ UNCHANGED streamVars
    /\ UNCHANGED <<tokenSet, nLoops, prev, cur, nloop, mse, filepath, sleepLeft,
                   files, nSaved, uploads, quiet, afterTrig, crashedAt, sinceTrig>>

\* start_stream(picam2) is called and its try block entered.
CallStartStream ==
    /\ mpc = "call"
    /\ mpc' = "create"
    /\ UNCHANGED <<rotation, transform, noDetect, recording, stops, exc>>
    /\ UNCHANGED streamVars
    /\ UNCHANGED detVars

\* httpd = StreamingServer(("", PORT), StreamingHandler); serve_forever()
\* begins to accept connections.
CreateServer ==
    /\ mpc = "create"
    /\ mpc' = "serve"
    /\ UNCHANGED <<rotation, transform, noDetect, recording, stops, exc>>
    /\ UNCHANGED streamVars
    /\ UNCHANGED detVars

\* StreamingServer(..) raises (the port is in use).
CreateServerFail ==
    /\ mpc = "create"
    /\ exc' = "OSError"
    /\ mpc' = "except"
    /\ UNCHANGED <<rotation, transform, noDetect, recording, stops>>
    /\ UNCHANGED streamVars
    /\ UNCHANGED detVars

\* serve_forever() raises: its loop is left.
ServeFail ==
    /\ mpc = "serve"
    /\ exc' = "OSError"
    /\ mpc' = "except"
    /\ UNCHANGED <<rotation, transform, noDetect, recording, stops>>
    /\ UNCHANGED streamVars
    /\ UNCHANGED detVars

\* The interrupt signal: KeyboardInterrupt is raised in the main thread,
\* inside the try block (while the server is created or while it serves).
Interrupt ==
    /\ mpc \in {"create", "serve"}
    /\ exc' = "KeyboardInterrupt"
    /\ mpc' = "except"
    /\ UNCHANGED <<rotation, transform, noDetect, recording, stops>>
    /\ UNCHANGED streamVars
    /\ UNCHANGED detVars

\* Except with the `except KeyboardInterrupt` clause taken away.
ExceptNoClause ==
    /\ mpc = "except"
    /\ mpc' = "finally"
    /\ UNCHANGED <<rotation, transform, noDetect, recording, stops, exc>>
    /\ UNCHANGED streamVars
    /\ UNCHANGED detVars

\* `except KeyboardInterrupt: pass`: that exception ends here, any other
\* stays in flight.
Except ==
    /\ mpc = "except"
    /\ exc' = IF exc = "KeyboardInterrupt" THEN "none" ELSE exc
    /\ mpc' = "finally"
    /\ UNCHANGED <<rotation, transform, noDetect, recording, stops>>
    /\ UNCHANGED streamVars
    /\ UNCHANGED detVars

\* `finally: picam2.stop_recording()`, then `return` or the exception in
\* flight leaves start_stream.
StopRecording ==
    /\ mpc = "finally"
    /\ stops' = stops + 1
    /\ recording' = FALSE
    /\ mpc' = IF exc = "none" THEN "returned" ELSE "raised"
    /\ UNCHANGED <<rotation, transform, noDetect, exc>>
    /\ UNCHANGED streamVars
    /\ UNCHANGED detVars

\* The main thread from parse_args to the end of start_stream, and the
\* encoder thread the camera runs while it records.
MainNext ==
    \/ ParseArgs
    \/ CheckColor
    \/ MakeTransform
    \/ Configure
    \/ StartRecording
    \/ StartThread
    \/ CallStartStream
    \/ CreateServer
    \/ CreateServerFail
    \/ ServeFail
    \/ Interrupt
    \/ Except
    \/ StopRecording
    \/ ProducerStep

SpecMain == InitStartup /\ [][MainNext]_vars

\* The process when start_stream is called with no PRINTER_TOKEN configured
\* (as shipped): the camera records, and the detector thread has been
\* started unless --no-detect was given.
InitRun ==
    /\ BusInit
    /\ AllVersioned
    /\ tokenSet = FALSE
    /\ nLoops = MOTION_N_LOOPS
    /\ \E n \in BOOLEAN : noDetect = n /\ dpc = IF n THEN "off" ELSE "start"
    /\ prev = None
    /\ cur = None
    /\ nloop = 0
    /\ mse = 0
    /\ filepath = "none"
    /\ sleepLeft = 0
    /\ files = {}
    /\ nSaved = 0
    /\ uploads = <<>>
    /\ quiet = 0
    /\ afterTrig = 0
    /\ crashedAt = "none"
    /\ sinceTrig = 0
    /\ mpc = "call"
    /\ rotation = 0
    /\ transform = "identity"
    /\ recording = TRUE
    /\ stops = 0
    /\ exc = "none"

\* The server being started and serving while the detector thread makes its
\* check of PRINTER_TOKEN.
RunNext ==
    \/ CallStartStream
    \/ CreateServer
    \/ CheckToken
    \/ ProducerStep
    \/ \E s \in Sessions : SessionStep(s)

SpecRun == InitRun /\ [][RunNext]_vars

\* The encoder thread and the session threads: the program run with
\* --no-detect (the detector shares no state with them).
Init == BusInit /\ AllVersioned /\ DetOff /\ MainServing

\* One client.
Viewer == CHOOSE s \in Sessions : TRUE

\* As Init, the clients sending a request line with or without a version.
InitWire ==
    /\ BusInit
    /\ \E v \in Versions : version = [s \in Sessions |-> v]
    /\ DetOff
    /\ MainServing

\* The stream as one client receives it: the encoder thread and the session
\* thread of that client.
WireNext ==
    \/ ProducerStep
    \/ SessionStep(Viewer)

SpecWire == InitWire /\ [][WireNext]_vars

Spec == Init /\ [][BusNext]_vars

\* A write call that has started runs to its end.
WriteProgress == WriteAcquire \/ WriteSwap \/ WriteNotify \/ WriteRelease

\* Every thread that can run does run, and the clients keep reading (or
\* close, making a write fail); the camera may stop delivering frames at any
\* time: no fairness on WriteCall.
SpecFair ==
    /\ Spec
    /\ WF_vars(WriteProgress)
    /\ \A s \in Sessions : WF_vars(SessionStep(s))

\* The steps of a session that need nothing from its client.
LocalStep(s) == Acquire(s) \/ WaitBegin(s) \/ WaitEnd(s) \/ TakeFrame(s)

\* As SpecFair, but a client may stall for ever: no fairness on any write to
\* a client.
SpecStall ==
    /\ Spec
    /\ WF_vars(WriteProgress)
    /\ \A s \in Sessions : WF_vars(LocalStep(s))

\* ------------------------------------------------------------------ claims
\* The step in which session s writes a frame to its client.
Delivers(s) == spc[s] = "w_frame" /\ spc'[s] = "w_crlf"

\* C1: numbering frames in publication order, every frame a session writes
\* has a strictly greater number than the frame it wrote before (and the
\* first one it writes is a published frame).
C1_StrictlyIncreasing ==
    [][\A s \in Sessions : Delivers(s) => sent'[s] > sent[s]]_vars

\* A session that has written a frame is about to write its next one, having
\* skipped at least one frame in between.
C1_Witness ==
    \E s \in Sessions :
        spc[s] = "w_frame" /\ sent[s] # NoFrame /\ sframe[s] > sent[s] + 1

\* C2: a session that has written a frame and waits again while frame k is
\* current eventually writes frame k or a later one (or ends), whatever the
\* encoder does next.
C2_EventuallyCurrent ==
    \A s \in Sessions : \A k \in 1..MaxFrames :
        (spc[s] = "waiting" /\ sent[s] # NoFrame /\ frame = k)
            ~> (spc[s] \in EndPcs \/ sent[s] >= k)

\* C3: a session that has taken a frame is never blocked in wait() while the
\* bus holds a newer frame (no publish being in progress).
C3_NoMissedWakeup ==
    \A s \in Sessions :
        (spc[s] = "waiting" /\ s \in waiters /\ sframe[s] # NoFrame /\ lock # Producer)
            => frame <= sframe[s]

\* C8: the step in which a write of the loop fails ends do_GET by a normal
\* return, leaves the bus, the encoder and every other session as they were,
\* and the ended session holds neither the lock nor a place among the waiters.
C8_FailureIsolated ==
    [][\A s \in Sessions :
         (spc[s] \in WritePcs /\ spc'[s] \in EndPcs) =>
            /\ spc'[s] = "removed"
            /\ busVars' = busVars
            /\ lock' # s /\ s \notin waiters'
            /\ ENABLED ProducerStep => (ENABLED ProducerStep)'
            /\ \A t \in Sessions \ {s} :
                 spc'[t] = spc[t] /\ sframe'[t] = sframe[t] /\ sent'[t] = sent[t]]_vars

\* A session's write has failed while another session is in the middle of a
\* part and a write call of the encoder is in progress.
C8_Witness ==
    \E s, t \in Sessions :
        /\ s # t
        /\ spc[s] = "removed"
        /\ spc[t] \in WritePcs
        /\ sent[t] # NoFrame
        /\ ppc # "idle"

\* The lock is held only inside the two `with` blocks.
LockScope ==
    /\ \A s \in Sessions : lock = s => spc[s] \in LockPcs
    /\ \A s \in Sessions : spc[s] \in LockPcs => lock = s
    /\ lock = Producer <=> ppc \in {"swap", "notify", "release"}

\* C9: a session holds the lock only between entering the `with` block and
\* wait(), and between waking and taking the frame, never while it writes;
\* the encoder holds it only to swap and notify; and a session that holds it
\* can always give it up by a step that needs nothing from its client.
C9_LockNeverHeldWhileWriting ==
    /\ LockScope
    /\ \A s \in Sessions : lock = s => ENABLED (WaitBegin(s) \/ TakeFrame(s))

\* C9, the consequence: a write call that wants the lock gets it, even if
\* every client stalls for ever (checked under SpecStall).
C9_PublishNotBlocked == (ppc = "acquire") ~> (lock = Producer)

\* The encoder takes the lock while a session is in the middle of a part.
C9_Witness ==
    /\ lock = Producer
    /\ \E s \in Sessions : spc[s] \in WritePcs

\* Sessions whose do_GET is running.
Live == {s \in Sessions : spc[s] \notin EndPcs \cup {"idle"}}

\* Live sessions whose local `frame` refers to a frame.
Holders == {s \in Live : sframe[s] # NoFrame}

\* Frames referred to by the bus or by a live session.
Retained == ({frame} \cup {sframe[s] : s \in Holders}) \ {NoFrame}

\* C10 as stated: the frames retained number at most one plus the sessions
\* that are writing.
C10_AtMostOnePlusWriters ==
    Cardinality(Retained) <= 1 + Cardinality({s \in Sessions : spc[s] \in WritePcs})

\* C10, amended: the bus holds the last frame published and nothing else, a
\* session that wakes takes the frame current at that moment, and the frames
\* retained number at most one plus the live sessions that have taken a frame.
C10_OneFramePlusHolders ==
    [][/\ frame' = published'
       /\ \A s \in Sessions :
            (spc[s] = "woken" /\ spc'[s] = "w_boundary") => sframe'[s] = frame
       /\ Cardinality(Retained') <= 1 + Cardinality(Holders')]_vars

\* All frames have been published, a session is waiting with the frame it
\* wrote before, and another is writing an older one.
C10_Witness ==
    /\ published = MaxFrames
    /\ \E s, t \in Sessions :
         /\ spc[s] = "waiting" /\ sframe[s] \notin {NoFrame, frame}
         /\ spc[t] \in WritePcs /\ sframe[t] \notin {NoFrame, frame, sframe[s]}

\* The comparison of this iteration has been made: mse is that of cur and prev.
Compared == dpc \in {"request", "endloop"} /\ prev # None /\ cur # None

\* The number of elements compared.
Pixels == W * H

\* C4: when every element of cur differs from prev by one offset d, the
\* metric (the mean) is d squared; for identical buffers it is 0.
C4_MetricIsOffsetSquared ==
    (Compared /\ \A i \in 1..Pixels : cur[i] - prev[i] = cur[1] - prev[1])
        => mse = (cur[1] - prev[1]) * (cur[1] - prev[1]) * Pixels

\* What the code computes there: d squared modulo 2^8.
C4_MetricIsOffsetSquaredMod256 ==
    (Compared /\ \A i \in 1..Pixels : cur[i] - prev[i] = cur[1] - prev[1])
        => mse = (((cur[1] - prev[1]) * (cur[1] - prev[1])) % 256) * Pixels

\* The handling of a trigger is over: the cooldown has begun, or
\* capture_request or save has raised.
TriggerHandled ==
    dpc = "cooldown" \/ (dpc = "crashed" /\ crashedAt \in {"request", "save"})

\* C5 as stated: every trigger writes exactly one snapshot file and invokes
\* the upload exactly once, for that file's path.
C5_ExactlyOnePerTrigger ==
    TriggerHandled => (nSaved = 1 /\ uploads = <<filepath>>)

\* C5, amended: a trigger writes at most one snapshot file and invokes the
\* upload at most once, for that file's path and after it was written; when
\* capture_request and save return it is exactly one of each, and the
\* detector then stays in time.sleep for WAIT_AFTER_MOTION seconds, capturing
\* and comparing nothing; when one of them raises, nothing is uploaded.
C5_OnePerTriggerUnlessRaised ==
    [][/\ nSaved' <= 1 /\ Len(uploads') <= nSaved'
       /\ dpc' = "cooldown" =>
            (nSaved' = 1 /\ uploads' = <<filepath'>> /\ filepath' \in files')
       /\ (dpc' = "crashed" /\ crashedAt' \in {"request", "save"}) =>
            (nSaved' = 0 /\ uploads' = <<>>)
       /\ (dpc # "cooldown" /\ dpc' = "cooldown") => sleepLeft' = WAIT_AFTER_MOTION
       /\ (dpc = "cooldown" /\ sleepLeft > 0) =>
            /\ dpc' = "cooldown"
            /\ sleepLeft' = sleepLeft - 1
            /\ <<prev', cur', mse', nSaved', uploads'>> = <<prev, cur, mse, nSaved, uploads>>
       /\ (dpc = "cooldown" /\ dpc' # "cooldown") => sleepLeft = 0]_vars

\* A cooldown has run to its end after a second trigger.
C5_Witness ==
    /\ dpc = "cooldown"
    /\ sleepLeft = 0
    /\ nSaved = 1
    /\ uploads = <<filepath>>
    /\ Cardinality(files) = 2

\* C6 as stated: with MOTION_N_LOOPS = N > 0 the throttle pause begins exactly
\* after N iterations without trigger, counted from the start, the last
\* pause or the last trigger.
C6_PauseAfterNQuietLoops ==
    nLoops > 0 =>
        /\ dpc = "throttle" => quiet = nLoops
        /\ dpc = "capture" => quiet < nLoops

\* C6, amended: the iteration that triggers counts as the first of the N, so
\* after a trigger the pause begins after N - 1 iterations without trigger
\* (with N = 1, at the end of the triggering iteration itself); counted from
\* the start or from the last pause it begins after N.
C6_PauseCountsTriggeringLoop ==
    nLoops > 0 =>
        /\ dpc = "throttle" => quiet + afterTrig = nLoops
        /\ dpc \in {"capture", "reshape", "compare"} => quiet + afterTrig < nLoops

\* With the shipped MOTION_N_LOOPS the pause begins 14 quiet iterations after
\* a trigger.
C6_Witness ==
    /\ nLoops = MOTION_N_LOOPS
    /\ dpc = "throttle"
    /\ afterTrig = 1
    /\ quiet = MOTION_N_LOOPS - 1

\* C7: no failure of capture_buffer, capture_request, save or the upload
\* ends the detection loop.
C7_FailureNeverEndsLoop == dpc # "crashed"

\* C11: with no PRINTER_TOKEN configured the detector thread, once started,
\* only makes its check and returns: it captures no buffer, writes no
\* snapshot and invokes no upload, and nothing of detect_motion can run after
\* the return; its return changes nothing of the encoder, the sessions or the
\* main thread, and start_stream goes on to create the server and to serve.
C11_AbstainsWhileStreaming ==
    [][/\ (dpc' # "off" /\ ~tokenSet') =>
            /\ dpc' \in {"start", "returned"}
            /\ prev' = None /\ cur' = None /\ sinceTrig' = 0
            /\ files' = {} /\ nSaved' = 0 /\ uploads' = <<>>
       /\ dpc' = "returned" => ~(ENABLED DetNext)'
       /\ dpc' # dpc =>
            /\ streamVars' = streamVars /\ mainVars' = mainVars
            /\ (ENABLED BusNext)' = ENABLED BusNext
       /\ mpc' = "call" => (ENABLED CallStartStream)'
       /\ mpc' = "create" => (ENABLED CreateServer)'
       /\ mpc' = "serve" =>
            \A s \in Sessions : spc'[s] = "idle" => (ENABLED Connect(s))']_vars

\* The detector has returned, the server serves, and a session that has
\* already written a frame is about to write a newer one.
C11_Witness ==
    /\ ~tokenSet
    /\ dpc = "returned"
    /\ mpc = "serve"
    /\ \E s \in Sessions :
         spc[s] = "w_frame" /\ sent[s] # NoFrame /\ sframe[s] > sent[s]

\* C12: a --rot value other than 0 or 180 stops the program before the
\* camera is configured and before the server is started: with such a value
\* the main thread never gets past the making of the transform, no transform
\* is made and the camera never records.
C12_BadRotationRejected ==
    rotation \notin {0, 180} =>
        /\ mpc \in {"parse", "color", "transform", "exited"}
        /\ transform = "none"
        /\ ~recording

\* Whether sequence a is the beginning of sequence b.
IsPrefix(a, b) == Len(a) <= Len(b) /\ a = SubSeq(b, 1, Len(a))

\* The response head of the multipart stream.
FullHead ==
    <<"200", "Server", "Date", "Age", "Cache-Control", "Pragma",
      "Content-Type: multipart", "blank">>

\* The elements of one part, in order.
PartOrder ==
    <<"boundary", "Content-Type", "Content-Length", "blank", "frame", "crlf">>

\* The elements of one part sent in answer to a request line without a
\* version: no header and no blank line.
BareOrder == <<"boundary", "frame", "crlf">>

\* Sessions that are past the response head.
Streaming == {s \in Sessions : spc[s] \notin {"idle", "hdr", "raised"}}

\* C13 as stated: every session past its response head has put the 200
\* status and the four headers on the socket, and what it has written of a
\* part is the beginning of boundary, Content-Type, Content-Length, blank
\* line, frame, CRLF.
C13_HeadThenWholeParts ==
    \A s \in Streaming : head[s] = FullHead /\ IsPrefix(part[s], PartOrder)

\* C13, amended: for a request line that carries an HTTP version the session
\* writes the head once, before any part, and then parts in the fixed order;
\* for a request line without one (HTTP/0.9) it writes no status line and no
\* header at all, and each part is boundary, frame, CRLF. In both cases a
\* part begins only after the trailing CRLF of the one before, and do_GET
\* ends only in a step in which a write fails.
C13_HeadOnceThenPartsInOrder ==
    [][\A s \in Sessions :
         LET full == version[s] # "HTTP/0.9"
             order == IF full THEN PartOrder ELSE BareOrder
         IN  /\ version'[s] = version[s]
             /\ head'[s] = IF full /\ s \in Streaming' THEN FullHead ELSE <<>>
             /\ part'[s] # <<>> => s \in Streaming'
             /\ IsPrefix(part'[s], order)
             /\ part'[s] # part[s] =>
                  \/ part'[s] = <<"boundary">> /\ part[s] \in {<<>>, order}
                  \/ Len(part'[s]) > Len(part[s]) /\ IsPrefix(part[s], part'[s])
             /\ (spc[s] \notin EndPcs /\ spc'[s] \in EndPcs) =>
                  /\ spc[s] \in WritePcs \cup {"hdr"}
                  /\ head'[s] = head[s] /\ part'[s] = part[s]]_vars

\* A session that answered a request line with a version has written one
\* whole part and the boundary and headers of the next.
C13_Witness ==
    \E s \in Sessions :
        /\ version[s] = "HTTP/1.1"
        /\ head[s] = FullHead
        /\ sent[s] # NoFrame
        /\ part[s] = <<"boundary", "Content-Type", "Content-Length", "blank">>

\* C14: a buffer from capture_buffer whose length is not w*h, longer or
\* shorter, makes the iteration fail at once: the step that slices and
\* reshapes it raises, and it is never cut to w*h elements and compared.
C14_SizeMismatchFailsFast ==
    [][(dpc = "reshape" /\ Len(cur) # W * H) => dpc' = "crashed"]_vars

\* Sessions whose part in progress (or last part) holds the frame bytes after
\* an announced Content-Length.
FrameWritten ==
    {s \in Sessions : IsPrefix(<<"boundary", "Content-Type", "Content-Length",
                                 "blank", "frame">>, part[s])}

\* C15: a session's local `frame` changes only in the step that reads
\* output.frame under the lock and stays the same while the part is written,
\* whatever the encoder publishes meanwhile; so in every part the
\* Content-Length announced is the length of the bytes written, and these are
\* the bytes of one published frame.
C15_LengthAndBytesOfOneFrame ==
    [][\A s \in Sessions :
         /\ sframe'[s] # sframe[s] => (lock = s /\ sframe'[s] = frame)
         /\ spc[s] \in WritePcs => sframe'[s] = sframe[s]
         /\ spc'[s] = "w_crlf" => sent'[s] = sframe'[s]
         /\ s \in FrameWritten' =>
              /\ sent'[s] \in 1..published'
              /\ clen'[s] = Len(FrameBytes(sent'[s]))]_vars

\* A session has written the headers and the bytes of the frame it took while
\* the encoder has published two newer frames since.
C15_Witness ==
    \E s \in Sessions :
        /\ spc[s] = "w_crlf"
        /\ s \in FrameWritten
        /\ sframe[s] # NoFrame
        /\ frame >= sframe[s] + 2

\* The positions of detect_motion inside the trigger branch.
TriggerPcs == {"request", "save", "upload", "cooldown"}

\* C16: the comparison step enters the trigger branch if and only if prev is
\* a buffer and the metric of cur and prev is strictly greater than
\* MOTION_THRESHOLD; the trigger branch is entered by that step only, and
\* outside it no snapshot is written, no upload invoked and no cooldown begun.
C16_TriggerIffAboveThreshold ==
    [][/\ dpc = "compare" =>
            /\ dpc' = "request" <=>
                 (prev # None /\ SquaredDiffSum(cur, prev) > MOTION_THRESHOLD * Pixels)
            /\ dpc' # "request" =>
                 /\ dpc' = "endloop"
                 /\ <<files', nSaved', uploads', sleepLeft', cur'>>
                        = <<files, nSaved, uploads, sleepLeft, cur>>
       /\ dpc' = "request" => dpc = "compare"
       /\ (dpc' \in TriggerPcs /\ dpc' # "request") => dpc \in TriggerPcs
       /\ <<files', nSaved', uploads'>> # <<files, nSaved, uploads>> =>
            (dpc \in TriggerPcs \/ dpc' \in TriggerPcs)]_vars

\* An iteration has ended without trigger on a metric equal to the threshold.
C16_Witness ==
    /\ dpc = "endloop"
    /\ prev # None
    /\ cur # None
    /\ mse = MOTION_THRESHOLD * Pixels
    /\ mse = SquaredDiffSum(cur, prev)

\* The positions at which start_stream has been left.
ExitPcs == {"returned", "raised"}

\* C17: picam2.stop_recording() is called in the `finally` step only, so
\* never while the server is being created or serves, and at most once; when
\* start_stream has been left, by return or by an exception, it has been
\* called exactly once and the camera does not record; a KeyboardInterrupt
\* raised in the try block ends in the except clause, so start_stream returns,
\* and only another exception leaves it.
C17_StopsOnceAfterServing ==
    [][/\ stops' # stops =>
            /\ mpc = "finally"
            /\ stops = 0 /\ stops' = 1
            /\ ~recording'
       /\ stops' = 1 => mpc' \notin {"call", "create", "serve", "except"}
       /\ mpc' \in ExitPcs => (stops' = 1 /\ ~recording')
       /\ (mpc' \in ExitPcs /\ mpc \notin ExitPcs) => mpc = "finally"
       /\ (mpc = "except" /\ mpc' # mpc /\ exc = "KeyboardInterrupt") => exc' = "none"
       /\ mpc' = "returned" => exc' = "none"
       /\ mpc' = "raised" => exc' \notin {"none", "KeyboardInterrupt"}
       /\ ~recording => (ppc = "idle" => ~ENABLED WriteCall)]_vars

\* start_stream has returned after an interrupt that came while the server
\* served and the camera had delivered frames; recording was stopped once.
C17_Witness ==
    /\ mpc = "returned"
    /\ exc = "none"
    /\ stops = 1
    /\ ~recording
    /\ published > 0

\* C18: the cooldown ends with cur emptied, so prev is empty when the next
\* buffer is captured; the first buffer captured after a trigger meets an
\* empty prev and is not compared (no metric, no trigger); and a step
\* triggers only when two buffers at least have been captured since the
\* trigger before it, so never in the iteration that follows a trigger.
C18_NoBaselineAcrossCooldown ==
    [][/\ (dpc = "cooldown" /\ dpc' # "cooldown") => (cur' = None /\ dpc' = "endloop")
       /\ (dpc = "endloop" /\ cur = None) => prev' = None
       /\ (sinceTrig' = 0 /\ dpc' \in {"capture", "throttle"}) => prev' = None
       /\ (sinceTrig' = 1 /\ dpc' \in {"reshape", "compare"}) => prev' = None
       /\ (dpc = "compare" /\ sinceTrig = 1) => (dpc' = "endloop" /\ mse' = mse)
       /\ (dpc = "compare" /\ dpc' = "request") => (sinceTrig = 2 /\ sinceTrig' = 0)
       /\ sinceTrig' > sinceTrig => (dpc = "capture" /\ dpc' = "reshape")]_vars

\* The first buffer captured after a cooldown is at the comparison, a
\* snapshot of the trigger before being on disk.
C18_Witness ==
    /\ dpc = "compare"
    /\ sinceTrig = 1
    /\ files # {}
    /\ cur # None
    /\ prev = None

\* C19: with MOTION_N_LOOPS = N > 0, nloop stays in 0..N-1; the end of every
\* iteration, the first one and a triggering one included, adds one modulo N
\* (a triggering iteration, which reset nloop, ends with 1 modulo N), and the
\* throttle pause begins in that step exactly when nloop has become 0, so
\* with N = 1 at the end of every iteration; nloop changes nowhere else but
\* in the reset after a cooldown. With N <= 0 nloop stays 0 and no throttle
\* pause begins.
C19_LoopCounter ==
    [][/\ nLoops > 0 =>
            /\ nloop' \in 0..(nLoops - 1)
            /\ dpc = "endloop" =>
                 /\ nloop' = (nloop + 1) % nLoops
                 /\ dpc' = "throttle" <=> nloop' = 0
                 /\ dpc' # "throttle" => dpc' = "capture"
                 /\ dpc' = "throttle" => sleepLeft' = WAIT_AFTER_N_LOOPS
                 /\ cur = None => (nloop = 0 /\ nloop' = 1 % nLoops)
                 /\ (prev = None /\ sinceTrig = 1 /\ files = {} /\ quiet = 0) =>
                      nloop' = 1 % nLoops
                 /\ nLoops = 1 => dpc' = "throttle"
            /\ (dpc' = "throttle" /\ dpc # "throttle") => dpc = "endloop"
            /\ nloop' # nloop =>
                 (dpc = "endloop" \/ (dpc = "cooldown" /\ dpc' = "endloop" /\ nloop' = 0))
       /\ nLoops <= 0 => (nloop' = 0 /\ dpc' # "throttle")]_vars

\* With MOTION_N_LOOPS = 1 the throttle pause has begun at the end of an
\* iteration that triggered.
C19_Witness ==
    /\ nLoops = 1
    /\ dpc = "throttle"
    /\ sleepLeft = WAIT_AFTER_N_LOOPS
    /\ cur = None
    /\ prev = None
    /\ files # {}
    /\ nloop = 0

====
